---- MODULE Spec2Model ----
(***************************************************************************)
(* ScriptCreatorMultiGraph (scrapegraphai/graphs/script_creator_multi_     *)
(* graph.py): a two-node pipeline, GraphIteratorNode -> MergeGenerated-    *)
(* ScriptsNode, built once by the constructor and executed by run().       *)
(*                                                                         *)
(* Python objects live in a heap of named cells, so that two references to *)
(* one dict (aliasing) and two equal dicts (a copy) are different things.  *)
(* A configuration is a dict {"llm": {"model": m}}: an outer cell that     *)
(* refers to an inner cell.                                                *)
(*                                                                         *)
(* Text values are token sequences tagged "str"; Python's None is PyNone.  *)
(* A state mapping (dict) is a function whose domain is its set of keys.   *)
(***************************************************************************)
EXTENDS Integers, Sequences, FiniteSets, TLC

\* ---------------------------------------------------------------- bounds
MaxUrls == 2
MaxRuns == 2

Urls    == {"u1", "u2"}
Models  == {"gpt-a", "gpt-b"}
Prompts == {"p1"}
Schemas == {"None", "SchemaClass"}

\* ---------------------------------------------------------------- values
PyNone == [tag |-> "None"]
Str(toks) == [tag |-> "str", toks |-> toks]

\* run(), line 99: the default of final_state.get
FailedToGenerate == Str(<<"Failed to generate the script.">>)

EmptyText == Str(<<>>)

\* dict.get(key, default), line 99: the default only when the key is absent
DictGet(m, k, d) == IF k \in DOMAIN m THEN m[k] ELSE d

\* d[key] = value
DictPut(m, k, v) == [x \in (DOMAIN m) \cup {k} |-> IF x = k THEN v ELSE m[x]]

\* ------------------------------------------------------------------ heap
OuterAddrs == {"caller", "copy"}
InnerOf(a) == IF a = "caller" THEN "caller.llm" ELSE "copy.llm"

\* the value a reference to a configuration dict denotes, inner dict included
DeepVal(h, ref) == [llm |-> [model |-> h[h[ref].llm].model]]

VARIABLES
    heap,            \* the Python heap: cell -> dict value
    config,          \* the caller's configuration object (a reference)
    schema,          \* the caller's schema (None or a class)
    prompt, source,  \* self.prompt, self.source
    copy_config,     \* self.copy_config (a reference)
    copy_schema,     \* self.copy_schema
    graph,           \* self.graph
    final_state, execution_info,
    pc,              \* where run() is: idle / executing / raising
    outcome, ret,    \* how the last run() ended and what it returned
    runs,            \* run() calls made so far
    execIds,         \* the pipeline object each run() call executed
    engState, engInfo, current, phase,    \* the engine: state, metadata, node
    sub, completion, failed,              \* the iterator's sub-invocations
    mergeStarted, mergeInput, mergeFailed,\* the merge stage
    iterDone,
    cfg0             \* the configuration value at construction time

selfVars   == <<prompt, source, copy_config, copy_schema, graph, config, schema, cfg0>>
resultVars == <<final_state, execution_info, outcome, ret>>
engVars    == <<engState, engInfo, current, phase>>
iterVars   == <<sub, completion, failed, iterDone>>
mergeVars  == <<mergeStarted, mergeInput, mergeFailed>>
vars == <<heap, selfVars, resultVars, pc, runs, execIds, engVars, iterVars, mergeVars>>

\* ------------------------------------------------------------ construction
\* utils.copy.safe_deepcopy: a structurally independent copy of the dict at
\* src, written to the fresh cells dst and InnerOf(dst)
safe_deepcopy(h, src, dst) ==
    [h EXCEPT ![dst] = [llm |-> InnerOf(dst)],
              ![InnerOf(dst)] = [model |-> h[h[src].llm].model]]

\* copy.deepcopy of the schema argument, Optional[Type[BaseModel]]: None and
\* classes are atomic for deepcopy, which returns the object it was given
deepcopy(x) == IF x \in {"None", "SchemaClass"} THEN x ELSE "None"

GraphIteratorNode(inKeys, outKey, scraper_config, sch) ==
    [name |-> "GraphIteratorNode", input |-> inKeys, output |-> outKey,
     scraper_config |-> scraper_config, schema |-> sch]

MergeGeneratedScriptsNode(inKeys, outKey, llm_model, sch) ==
    [name |-> "MergeGeneratedScriptsNode", input |-> inKeys, output |-> outKey,
     llm_model |-> llm_model, schema |-> sch]

\* _create_graph with the iterator handed self.config, the caller's object
create_graph_alias(self_config, self_llm_model, self_copy_config, self_copy_schema, self_schema) ==
    [id |-> 1,
     nodes |-> [iterator |-> GraphIteratorNode(<<"user_prompt", "urls">>, "scripts",
                                               self_config, self_copy_schema),
                merge |-> MergeGeneratedScriptsNode(<<"user_prompt", "scripts">>,
                                               "merged_script", self_llm_model, self_schema)],
     edges |-> {<<"iterator", "merge">>},
     entry_point |-> "iterator"]

\* _create_graph with the merge node as the entry point
create_graph_entry(self_config, self_llm_model, self_copy_config, self_copy_schema, self_schema) ==
    [id |-> 1,
     nodes |-> [iterator |-> GraphIteratorNode(<<"user_prompt", "urls">>, "scripts",
                                               self_copy_config, self_copy_schema),
                merge |-> MergeGeneratedScriptsNode(<<"user_prompt", "scripts">>,
                                               "merged_script", self_llm_model, self_schema)],
     edges |-> {<<"iterator", "merge">>},
     entry_point |-> "merge"]

\* _create_graph with the iterator's output key misspelt
create_graph_key(self_config, self_llm_model, self_copy_config, self_copy_schema, self_schema) ==
    [id |-> 1,
     nodes |-> [iterator |-> GraphIteratorNode(<<"user_prompt", "urls">>, "script",
                                               self_copy_config, self_copy_schema),
                merge |-> MergeGeneratedScriptsNode(<<"user_prompt", "scripts">>,
                                               "merged_script", self_llm_model, self_schema)],
     edges |-> {<<"iterator", "merge">>},
     entry_point |-> "iterator"]

\* _create_graph: the iterator node (scraper_config = self.copy_config, schema =
\* self.copy_schema), the merge node (self.llm_model and self.schema), the one edge iterator -> merge, entry point the iterator
create_graph(self_config, self_llm_model, self_copy_config, self_copy_schema, self_schema) ==
    [id |-> 1,
     nodes |-> [iterator |-> GraphIteratorNode(<<"user_prompt", "urls">>, "scripts",
                                               self_copy_config, self_copy_schema),
                merge |-> MergeGeneratedScriptsNode(<<"user_prompt", "scripts">>,
                                               "merged_script", self_llm_model, self_schema)],
     edges |-> {<<"iterator", "merge">>},
     entry_point |-> "iterator"]

\* the caller's configuration dict before the constructor is called
CallerHeap(m) ==
    [a \in OuterAddrs \cup {InnerOf(o) : o \in OuterAddrs} |->
        IF a = "caller" THEN [llm |-> "caller.llm"]
        ELSE IF a = "caller.llm" THEN [model |-> m]
        ELSE PyNone]

SourceLists == UNION {[1..n -> Urls] : n \in 0..MaxUrls}

\* AbstractGraph.__init__(prompt, config, source, schema): keeps its arguments,
\* builds self.llm_model from config["llm"] and self.graph with _create_graph,
\* and starts with no results
AbstractGraphInit(p, c, src, sch) ==
    /\ prompt = p
    /\ config = c
    /\ source = src
    /\ schema = sch
    /\ graph = create_graph(c, heap[heap[c].llm].model, copy_config, copy_schema, sch)
    /\ final_state = PyNone
    /\ execution_info = PyNone

\* __init__: the two copies, then the base class's constructor
Init ==
    \E p \in Prompts, src \in SourceLists, m \in Models, sch \in Schemas :
        /\ heap = safe_deepcopy(CallerHeap(m), "caller", "copy")
        /\ copy_config = "copy"
        /\ copy_schema = deepcopy(sch)
        /\ AbstractGraphInit(p, "caller", src, sch)
        /\ cfg0 = [llm |-> [model |-> m]]
        /\ pc = "idle"
        /\ outcome = "none"
        /\ ret = PyNone
        /\ runs = 0
        /\ execIds = <<>>
        /\ engState = PyNone
        /\ engInfo = <<>>
        /\ current = "none"
        /\ phase = "ready"
        /\ sub = <<>>
        /\ completion = <<>>
        /\ failed = {}
        /\ iterDone = FALSE
        /\ mergeStarted = FALSE
        /\ mergeInput = <<>>
        /\ mergeFailed = FALSE

\* --------------------------------------------------------------- the caller
\* the caller writes to its own configuration dict: config["llm"]["model"] = m
MutateCallerConfig ==
    /\ \E m \in Models :
            /\ heap[heap[config].llm].model # m
            /\ heap' = [heap EXCEPT ![heap[config].llm].model = m]
    /\ UNCHANGED <<selfVars, resultVars, pc, runs, execIds, engVars, iterVars, mergeVars>>

\* ------------------------------------------------------------------- run()
\* run(), line 97: inputs = {"user_prompt": self.prompt, "urls": self.source}
RunInputs == [user_prompt |-> prompt, urls |-> source]

\* run() building a pipeline of its own for the call
RunGraphFresh == [graph EXCEPT !.id = graph.id + Len(execIds) + 1]

\* run(), line 98: the pipeline object whose execute is called, self.graph
RunGraph == graph

\* run(), lines 97-98: graph.execute(inputs) is entered at the entry point
RunCall ==
    /\ pc = "idle"
    /\ runs < MaxRuns
    /\ pc' = "executing"
    /\ runs' = runs + 1
    /\ execIds' = Append(execIds, RunGraph.id)
    /\ engState' = RunInputs
    /\ engInfo' = <<>>
    /\ current' = RunGraph.entry_point
    /\ phase' = "ready"
    /\ sub' = <<>>
    /\ completion' = <<>>
    /\ failed' = {}
    /\ iterDone' = FALSE
    /\ mergeStarted' = FALSE
    /\ mergeInput' = <<>>
    /\ mergeFailed' = FALSE
    /\ UNCHANGED <<heap, selfVars, resultVars>>

\* execute has ended: the engine's working state and the sub-pipelines are gone
EngineGone ==
    /\ engState' = PyNone
    /\ engInfo' = <<>>
    /\ current' = "none"
    /\ phase' = "ready"
    /\ sub' = <<>>
    /\ completion' = <<>>
    /\ failed' = {}
    /\ mergeInput' = <<>>

\* run() with "" as the default of final_state.get
RunResultEmpty(fs) == DictGet(fs, "merged_script", EmptyText)

\* run() with final_state.get("merged_script"), no default
RunResultNoDefault(fs) == DictGet(fs, "merged_script", PyNone)

\* run(), line 99: final_state.get("merged_script", "Failed to generate the script.")
RunResult(fs) == DictGet(fs, "merged_script", FailedToGenerate)

\* run() computing its result before it stores the new final state
RunReturnStale ==
    /\ pc = "executing"
    /\ current = "none"
    /\ final_state' = engState
    /\ execution_info' = engInfo
    /\ ret' = RunResult(final_state)
    /\ outcome' = "returned"
    /\ pc' = "idle"
    /\ EngineGone
    /\ UNCHANGED <<heap, selfVars, runs, execIds, iterDone, mergeStarted, mergeFailed>>

\* run(), lines 98-99: execute has returned (state, info); both are stored and
\* the result is read from the stored final state
RunReturn ==
    /\ pc = "executing"
    /\ current = "none"
    /\ final_state' = engState
    /\ execution_info' = engInfo
    /\ ret' = RunResult(final_state')
    /\ outcome' = "returned"
    /\ pc' = "idle"
    /\ EngineGone
    /\ UNCHANGED <<heap, selfVars, runs, execIds, iterDone, mergeStarted, mergeFailed>>

\* run(), line 98: execute raised, so the assignment never happens and the
\* exception leaves run()
RunRaise ==
    /\ pc = "raising"
    /\ pc' = "idle"
    /\ outcome' = "raised"
    /\ EngineGone
    /\ UNCHANGED <<heap, selfVars, final_state, execution_info, ret, runs, execIds,
                   iterDone, mergeStarted, mergeFailed>>

\* ------------------------------------------------- the graph engine's steps
\* BaseGraph.execute: after a node, the node its outgoing edge leads to
NextNode(g, n) ==
    IF \E e \in g.edges : e[1] = n
    THEN (CHOOSE e \in g.edges : e[1] = n)[2]
    ELSE "none"

\* the sub-pipeline's artifact for one URL: a generated script, tagged with
\* the URL it was generated for
Script(url) == Str(<<"script", url>>)

\* the iterator's result: the artifacts of the sub-invocations that succeeded,
\* in the order of the input URLs
Artifacts(urls, subs) ==
    LET idx == SelectSeq([i \in 1..Len(urls) |-> i], LAMBDA i : subs[i].st = "done")
    IN  [k \in 1..Len(idx) |-> Script(urls[idx[k]])]

RECURSIVE Flatten(_)
Flatten(scripts) ==
    IF scripts = <<>> THEN <<>> ELSE Head(scripts).toks \o Flatten(Tail(scripts))

\* the merge stage's artifact: one text made of the prompt and all the scripts
Merged(user_prompt, scripts) == Str(<<"merged", user_prompt>> \o Flatten(scripts))

\* GraphIteratorNode starts: one sub-invocation per URL of its input
IteratorStart ==
    /\ pc = "executing"
    /\ current = "iterator"
    /\ phase = "ready"
    /\ LET urls == engState[graph.nodes.iterator.input[2]]
       IN  sub' = [i \in 1..Len(urls) |-> [st |-> "pending", obs |-> PyNone]]
    /\ phase' = "running"
    /\ UNCHANGED <<heap, selfVars, resultVars, pc, runs, execIds, engState, engInfo,
                   current, completion, failed, iterDone, mergeVars>>

\* a sub-invocation starts: a fresh sub-pipeline reads the scraper configuration
SubStart(i) ==
    /\ pc = "executing"
    /\ current = "iterator"
    /\ phase = "running"
    /\ sub[i].st = "pending"
    /\ sub' = [sub EXCEPT ![i] = [st |-> "running",
                  obs |-> DeepVal(heap, graph.nodes.iterator.scraper_config)]]
    /\ UNCHANGED <<heap, selfVars, resultVars, pc, runs, execIds, engVars,
                   completion, failed, iterDone, mergeVars>>

\* a sub-invocation ends with its artifact
SubFinish(i) ==
    /\ pc = "executing"
    /\ current = "iterator"
    /\ phase = "running"
    /\ sub[i].st = "running"
    /\ sub' = [sub EXCEPT ![i].st = "done"]
    /\ completion' = Append(completion, i)
    /\ UNCHANGED <<heap, selfVars, resultVars, pc, runs, execIds, engVars,
                   failed, iterDone, mergeVars>>

\* a sub-invocation fails (network, parsing, LLM); the failure is collected
\* with the index of its URL
SubFail(i) ==
    /\ pc = "executing"
    /\ current = "iterator"
    /\ phase = "running"
    /\ sub[i].st = "running"
    /\ sub' = [sub EXCEPT ![i].st = "failed"]
    /\ completion' = Append(completion, i)
    /\ failed' = failed \cup {i}
    /\ UNCHANGED <<heap, selfVars, resultVars, pc, runs, execIds, engVars,
                   iterDone, mergeVars>>

\* every sub-invocation has ended: the iterator writes the ordered artifacts to
\* its output key and the engine follows the edge (skip-and-continue), or the
\* batch is aborted and execute raises (abort-all)
IteratorJoin ==
    /\ pc = "executing"
    /\ current = "iterator"
    /\ phase = "running"
    /\ \A i \in DOMAIN sub : sub[i].st \in {"done", "failed"}
    /\ \/ /\ engState' = DictPut(engState, graph.nodes.iterator.output,
                                 Artifacts(engState[graph.nodes.iterator.input[2]], sub))
          /\ engInfo' = Append(engInfo, "iterator")
          /\ current' = NextNode(graph, "iterator")
          /\ phase' = "ready"
          /\ iterDone' = TRUE
          /\ pc' = pc
       \/ /\ failed # {}
          /\ pc' = "raising"
          /\ UNCHANGED <<engVars, iterDone>>
    /\ UNCHANGED <<heap, selfVars, resultVars, runs, execIds, sub, completion, failed,
                   mergeVars>>

\* MergeGeneratedScriptsNode starts: it reads the scripts from the state
MergeStart ==
    /\ pc = "executing"
    /\ current = "merge"
    /\ phase = "ready"
    /\ mergeInput' = DictGet(engState, graph.nodes.merge.input[2], <<>>)
    /\ mergeStarted' = TRUE
    /\ phase' = "running"
    /\ UNCHANGED <<heap, selfVars, resultVars, pc, runs, execIds, engState, engInfo,
                   current, iterVars, mergeFailed>>

\* the one consolidation call ends: a merged script; or, with no scripts or a
\* failed call, no script (the key stays absent, or holds the failure text)
MergeFinish ==
    /\ pc = "executing"
    /\ current = "merge"
    /\ phase = "running"
    /\ \/ /\ mergeInput # <<>>
          /\ engState' = DictPut(engState, graph.nodes.merge.output,
                                 Merged(engState[graph.nodes.merge.input[1]], mergeInput))
          /\ mergeFailed' = FALSE
       \/ /\ mergeFailed' = TRUE
          /\ \/ engState' = engState
             \/ engState' = DictPut(engState, graph.nodes.merge.output, FailedToGenerate)
    /\ engInfo' = Append(engInfo, "merge")
    /\ current' = NextNode(graph, "merge")
    /\ phase' = "ready"
    /\ UNCHANGED <<heap, selfVars, resultVars, pc, runs, execIds, iterVars,
                   mergeStarted, mergeInput>>

\* ------------------------------------------- the engine as an opaque callee
\* what execute may hand back for the given inputs: any final state mapping
OpaqueFinalStates(inputs) ==
    {inputs} \cup
    {DictPut(inputs, "merged_script", v) :
        v \in {PyNone, EmptyText, FailedToGenerate, Merged(inputs.user_prompt, <<>>)}}

OpaqueInfos == {<<>>, <<"iterator", "merge">>}

\* graph.execute(inputs) returns some (final state, execution info) or raises
ExecuteOpaque ==
    /\ pc = "executing"
    /\ current # "none"
    /\ phase = "ready"
    /\ \/ /\ engState' \in OpaqueFinalStates(engState)
          /\ engInfo' \in OpaqueInfos
          /\ current' = "none"
          /\ pc' = pc
       \/ /\ pc' = "raising"
          /\ UNCHANGED <<engState, engInfo, current>>
    /\ UNCHANGED <<heap, selfVars, resultVars, runs, execIds, phase, iterVars, mergeVars>>

\* ---------------------------------------------------------- specifications
Next ==
    \/ MutateCallerConfig
    \/ RunCall
    \/ IteratorStart
    \/ \E i \in DOMAIN sub : SubStart(i)
    \/ \E i \in DOMAIN sub : SubFinish(i)
    \/ \E i \in DOMAIN sub : SubFail(i)
    \/ IteratorJoin
    \/ MergeStart
    \/ MergeFinish
    \/ RunReturn
    \/ RunRaise

Spec == Init /\ [][Next]_vars

NextOpaque ==
    \/ MutateCallerConfig
    \/ RunCall
    \/ ExecuteOpaque
    \/ RunReturn
    \/ RunRaise

SpecOpaque == Init /\ [][NextOpaque]_vars

\* ------------------------------------------------------------------ claims
ExpectedScripts == [i \in 1..Len(source) |-> Str(<<"script", source[i]>>)]

\* C1: whatever the caller does to its configuration object after construction,
\* the scraper configuration held by the iterator node, and the configuration
\* every started sub-invocation has read, equal the configuration's value at
\* construction time.
C1_DefensiveCopy ==
    /\ DeepVal(heap, graph.nodes.iterator.scraper_config) = cfg0
    /\ \A i \in DOMAIN sub : sub[i].st # "pending" => sub[i].obs = cfg0

\* a sub-invocation of the second run() has read its configuration while the
\* caller's dict no longer holds the value it had at construction
C1_Witness ==
    /\ runs = 2
    /\ DeepVal(heap, config) # cfg0
    /\ \E i \in DOMAIN sub : sub[i].st \in {"running", "done"} /\ sub[i].obs = cfg0

\* C2: whatever final state execute returns, run() returns the merged artifact
\* (the text under merged_script) or the failure text, never None.
C2_NeverNull ==
    outcome = "returned" =>
        \/ ret = FailedToGenerate
        \/ /\ ret.tag = "str"
           /\ "merged_script" \in DOMAIN final_state
           /\ ret = final_state["merged_script"]

C5_Barrier ==
    /\ current = "merge" => iterDone
    /\ mergeStarted =>
        /\ iterDone
        /\ pc = "executing" =>
            /\ DOMAIN sub = 1..Len(source)
            /\ \A i \in DOMAIN sub : sub[i].st \in {"done", "failed"}

\* the merge stage runs after two sub-invocations that ended in the reverse of
\* the input order
C5_Witness ==
    /\ pc = "executing"
    /\ current = "merge"
    /\ phase = "running"
    /\ Len(sub) = 2
    /\ completion = <<2, 1>>

\* C6: when no sub-invocation of a run over N >= 1 URLs fails, the merge stage
\* receives exactly N artifacts, the i-th being the one for the i-th URL,
\* whatever the order in which the sub-invocations ended.
C6_OrderedArtifacts ==
    (pc = "executing" /\ mergeStarted /\ source # <<>> /\ failed = {}) =>
        /\ Len(mergeInput) = Len(source)
        /\ \A i \in 1..Len(source) : mergeInput[i] = ExpectedScripts[i]

\* two different URLs, the second one's sub-invocation ended first, none failed
C6_Witness ==
    /\ pc = "executing"
    /\ mergeStarted
    /\ failed = {}
    /\ Len(source) = 2
    /\ source[1] # source[2]
    /\ completion = <<2, 1>>

\* C7 as stated: no two run() calls execute the same pipeline object.
C7_FreshPerCall ==
    \A i, j \in DOMAIN execIds : i # j => execIds[i] # execIds[j]

\* C7 as amended: the pipeline is built once, by the constructor, around
\* copy_config, a dict that shares no cell with the caller's, and copy_schema;
\* every run() call executes that one pipeline object.
C7_BuiltOnce ==
    /\ \A k \in DOMAIN execIds : execIds[k] = graph.id
    /\ graph.nodes.iterator.scraper_config = copy_config
    /\ graph.nodes.iterator.schema = copy_schema
    /\ copy_config # config
    /\ heap[copy_config].llm # heap[config].llm

\* run() has been called twice on the instance
C7_Witness == Len(execIds) >= 2 /\ pc = "idle" /\ outcome = "returned"

\* C10: a step in which run() returns stores execute's state and info together
\* and returns what that stored state holds under merged_script (the failure
\* text if it holds nothing); every other step of a run(), a raise included,
\* leaves final_state and execution_info as they were; no step of a run()
\* changes prompt, source, copy_config, copy_schema or the copied dict.
C10_RunFrame ==
    [][ /\ (pc = "executing" /\ pc' = "idle") =>
              /\ final_state' = engState
              /\ execution_info' = engInfo
              /\ outcome' = "returned"
              /\ ret' = IF "merged_script" \in DOMAIN engState
                        THEN engState["merged_script"] ELSE FailedToGenerate
        /\ ~(pc = "executing" /\ pc' = "idle") =>
              UNCHANGED <<final_state, execution_info, ret>>
        /\ (pc = "raising" /\ pc' = "idle") => outcome' = "raised"
        /\ UNCHANGED <<prompt, source, copy_config, copy_schema>>
        /\ DeepVal(heap', copy_config') = DeepVal(heap, copy_config)
      ]_vars

\* a run() raised after an earlier run() of the instance had returned
C10_Witness ==
    /\ pc = "idle"
    /\ outcome = "raised"
    /\ runs = 2
    /\ execution_info # PyNone
    /\ "merged_script" \in DOMAIN final_state

====
